---- MODULE Spec2Model ----
(***************************************************************************)
(* Model of server.js: the HTTP request handler (CORS preflight, POST      *)
(* /submit, static files), the in-memory OAuth token cache of              *)
(* getAccessToken and the Sheets append call of appendToSheet.             *)
(*                                                                         *)
(* Node runs every callback to its next await without interleaving, so an  *)
(* action is one such run: the request handler, the 'end' handler up to    *)
(* the first fetch, the continuation after the token response, the         *)
(* continuation after the append response, and the two readFile callbacks. *)
(* The outside world (request contents, HTTP responses of the token        *)
(* endpoint and the Sheets API, file-system results, the clock) is chosen  *)
(* nondeterministically.                                                   *)
(***************************************************************************)
EXTENDS Integers, Sequences, FiniteSets, TLC

VARIABLES cachedToken, tokenExpiry, clock, req, exchanges

vars == <<cachedToken, tokenExpiry, clock, req, exchanges>>

(* ---------------------------- bounds ----------------------------------- *)

NumReq == 2         \* concurrent requests
MaxTime == 1        \* the clock (seconds) runs 0..MaxTime
Lifetime == 6       \* expires_in the token endpoint grants

Requests == 1..NumReq

(* ------------------------ JavaScript values ---------------------------- *)

\* undefined, null and the empty string, as values of a JSON field or variable
Absent == "<undefined>"
Null == "<null>"
Empty == ""

\* numbers: <<n>> is the number n, <<>> is NaN
Num(n) == <<n>>
NaN == <<>>

\* ToBoolean on the values above: undefined, null and '' are falsy
Truthy(v) == v \notin {Absent, Null, Empty}

\* a + b and a - b on numbers; undefined coerces to NaN, NaN is absorbing
JsAdd(a, b) == IF a = NaN \/ b = NaN THEN NaN ELSE Num(a[1] + b[1])
JsSub(a, b) == IF a = NaN \/ b = NaN THEN NaN ELSE Num(a[1] - b[1])
\* a > b: false when either side is NaN
JsGt(a, b) == a # NaN /\ b # NaN /\ a[1] > b[1]

(* ----------------------------- requests -------------------------------- *)

Methods == {"GET", "POST", "OPTIONS"}
Paths == {"/", "/submit"}

\* the body of a POST /submit, by what JSON.parse makes of it: it throws
\* ("invalid"), or returns null, a non-object value ("scalar": a number, a
\* string, a boolean) or an object with some of the five fields
\* (the optional fields: one absent or null while the other is filled)
ObjectBodies ==
  [kind : {"object"},
   name : {Absent, Empty, "Ana"},
   surname : {Absent, Empty, "Silva"},
   birthdate : {Absent},
   whatsapp : {"5511999990000"},
   email : {Absent, Empty, "a@x.com"}]
  \cup
  [kind : {"object"},
   name : {Absent, Empty, "Ana"},
   surname : {Absent, Empty, "Silva"},
   birthdate : {"1990-05-17"},
   whatsapp : {Null},
   email : {Absent, Empty, "a@x.com"}]

OtherBodies ==
  [kind : {"invalid", "null", "scalar"},
   name : {Absent}, surname : {Absent}, birthdate : {Absent},
   whatsapp : {Absent}, email : {Absent}]

Bodies == ObjectBodies \cup OtherBodies

RequiredFields == {"name", "surname", "email"}

\* const data = JSON.parse(body) throws a SyntaxError
ParseThrows(body) == body.kind = "invalid"

\* const { name, ... } = data throws a TypeError when data is null
DestructureThrows(body) == body.kind = "null"

\* the destructured locals: a property of a non-object is undefined
Locals(body) ==
  [f \in {"name", "surname", "birthdate", "whatsapp", "email"} |->
     IF body.kind = "object" THEN body[f] ELSE Absent]

NoLocals ==
  [f \in {"name", "surname", "birthdate", "whatsapp", "email"} |-> Absent]

\* if (!name || !surname || !email)
MissingRequired(l) ==
  ~Truthy(l["name"]) \/ ~Truthy(l["surname"]) \/ ~Truthy(l["email"])

\* new Date().toISOString() at clock second t
Iso(t) == "1970-01-01T00:00:0" \o ToString(t) \o ".000Z"

\* x || ''
OrEmpty(v) == IF Truthy(v) THEN v ELSE Empty

\* the row without the defaults of the optional fields
BuildRowRaw(timestamp, l) ==
  <<timestamp, l["name"], l["surname"], l["birthdate"], l["whatsapp"], l["email"]>>

\* const row = [timestamp, name, surname, birthdate || '', whatsapp || '', email]
BuildRow(timestamp, l) ==
  <<timestamp, l["name"], l["surname"], OrEmpty(l["birthdate"]),
    OrEmpty(l["whatsapp"]), l["email"]>>

(* ----------------------------- responses ------------------------------- *)

ValidationPayload == "{error: Nome, sobrenome e email sao obrigatorios.}"
SuccessPayload == "{message: Dados enviados com sucesso!}"
FailurePayload == "{error: Erro ao processar a solicitacao.}"
NoBody == "<no body>"

NoResp == [status |-> 0, ctype |-> "", body |-> NoBody]

\* res.writeHead(400, ...); res.end(JSON.stringify({ error: ... }))
Resp400 == [status |-> 400, ctype |-> "application/json", body |-> ValidationPayload]
\* res.writeHead(200, ...); res.end(JSON.stringify({ message: ... }))
Resp200 == [status |-> 200, ctype |-> "application/json", body |-> SuccessPayload]
\* the catch block
Resp500 == [status |-> 500, ctype |-> "application/json", body |-> FailurePayload]
\* res.writeHead(204); res.end()
Resp204 == [status |-> 204, ctype |-> "", body |-> NoBody]

\* the three res.setHeader calls at the start of the handler
CorsHeaders ==
  {"Access-Control-Allow-Origin: *",
   "Access-Control-Allow-Methods: GET, POST, OPTIONS",
   "Access-Control-Allow-Headers: Content-Type"}

(* --------------------------- token provider ---------------------------- *)

SafetyMargin == 5

\* the access token the endpoint issues for the exchange of request r
TokenOf(r) == "ya29.token-" \o ToString(r)

NoToken == "<no token>"

\* what comes back from fetch(token endpoint) and response.json():
\* fetch rejects, or resolves with a status (ok or not) and a body that
\* parses as JSON or not; a parsed body carries access_token and expires_in
\* or, like {}, neither
NoData == [access_token |-> Absent, expires_in |-> NaN]

TokenResponses(r) ==
  [fetch : {"rejects"}, ok : {FALSE}, json : {"throws"}, data : {NoData}]
  \cup [fetch : {"resolves"}, ok : {TRUE}, json : {"throws"}, data : {NoData}]
  \cup [fetch : {"resolves"}, ok : {FALSE}, json : {"parses"}, data : {NoData}]
  \cup [fetch : {"resolves"}, ok : {TRUE}, json : {"parses"},
        data : {NoData,
                [access_token |-> TokenOf(r), expires_in |-> Num(Lifetime)]}]

NoCall == [fetch |-> "none", ok |-> FALSE, json |-> "none", data |-> NoData]

\* the cache check without the safety margin
CacheValidNoMargin(now) == Truthy(cachedToken) /\ JsGt(tokenExpiry, Num(now))

\* if (cachedToken && tokenExpiry - 5 > now)
CacheValid(now) ==
  Truthy(cachedToken) /\ JsGt(JsSub(tokenExpiry, Num(SafetyMargin)), Num(now))

\* the exchange without the check of response.ok
ExchangeThrowsNoStatus(resp) == resp.fetch = "rejects" \/ resp.json = "throws"

\* await fetch(...) rejects, await response.json() rejects, or
\* if (!response.ok) throw
ExchangeThrows(resp) ==
  resp.fetch = "rejects" \/ resp.json = "throws" \/ ~resp.ok

\* the error body of a non-2xx answer of the token endpoint
TokenErrorDetails == {"invalid_grant", "invalid_client"}

\* the Errors getAccessToken can throw on resp: fetch's, response.json()'s,
\* or new Error(`Token request failed: ${JSON.stringify(data)}`)
TokenErrors(resp) ==
  IF resp.fetch = "rejects" THEN {"TypeError: fetch failed"}
  ELSE IF resp.json = "throws" THEN {"SyntaxError: Unexpected token"}
  ELSE {"Token request failed: " \o detail : detail \in TokenErrorDetails}

\* the expiry counted from the time the response arrived
NewExpiryAtResponse(now, expires_in) == JsAdd(Num(clock), expires_in)

\* tokenExpiry = now + data.expires_in
NewExpiry(now, expires_in) == JsAdd(Num(now), expires_in)

\* the time at which the endpoint issued the token of a response arriving
\* now, for a call started at start: any time in between (a body without
\* a token has none, the start stands for it)
IssueTimes(start, data) ==
  IF data.access_token = Absent THEN {start} ELSE start..clock

\* the token's expiry at the provider: expires_in counted from its issue
RealExpiry(e) == e.issued + e.data.expires_in[1]

\* the pair kept when the cached one expires later than the new one
StoredIfNewer(now, data) ==
  IF JsGt(tokenExpiry, NewExpiry(now, data.expires_in))
  THEN <<cachedToken, tokenExpiry>>
  ELSE <<data.access_token, NewExpiry(now, data.expires_in)>>

\* the pair with the expiry counted from the arrival of the response
StoredAtResponse(now, data) ==
  <<data.access_token, JsAdd(Num(clock), data.expires_in)>>

\* the token stored and the expiry left as it was
StoredTokenOnly(now, data) == <<data.access_token, tokenExpiry>>

\* cachedToken = data.access_token; tokenExpiry = now + data.expires_in
Stored(now, data) == <<data.access_token, NewExpiry(now, data.expires_in)>>

(* ---------------------------- sheet appender --------------------------- *)

AppendResponses ==
  [fetch : {"rejects"}, ok : {FALSE}, json : {"throws"}]
  \cup [fetch : {"resolves"}, ok : {TRUE}, json : {"throws"}]
  \cup [fetch : {"resolves"}, ok : BOOLEAN, json : {"parses"}]

NoAppend == [fetch |-> "none", ok |-> FALSE, json |-> "none"]

\* the append without the check of response.ok
AppendThrowsNoStatus(resp) == resp.fetch = "rejects" \/ resp.json = "throws"

\* await fetch(url, ...) rejects, await response.json() rejects, or
\* if (!response.ok) throw
AppendThrows(resp) ==
  resp.fetch = "rejects" \/ resp.json = "throws" \/ ~resp.ok

\* the error body of a non-2xx answer of the Sheets API
AppendErrorDetails == {"PERMISSION_DENIED", "UNAUTHENTICATED"}

\* the Errors appendToSheet can throw on resp: fetch's, response.json()'s,
\* or new Error(`Sheets append failed: ${JSON.stringify(data)}`)
AppendErrors(resp) ==
  IF resp.fetch = "rejects" THEN {"TypeError: fetch failed"}
  ELSE IF resp.json = "throws" THEN {"SyntaxError: Unexpected token"}
  ELSE {"Sheets append failed: " \o detail : detail \in AppendErrorDetails}

\* the cached pair dropped when the append fails
CacheDroppedOnFailure(resp) ==
  IF AppendThrows(resp) THEN <<Null, Num(0)>> ELSE <<cachedToken, tokenExpiry>>

\* the cached pair after appendToSheet handled the answer of the Sheets
\* API: neither the throw nor the return assigns cachedToken or tokenExpiry
CacheAfterAppend(resp) == <<cachedToken, tokenExpiry>>

(* ------------------------------ static files --------------------------- *)

\* path.join(__dirname, pathname), '/' and '' mapped to index.html
FilePath(pathname) ==
  IF pathname = "/" \/ pathname = "" THEN "index.html"
  ELSE IF pathname = "/style.css" THEN "style.css"
  ELSE "submit"

\* path.extname(filePath).toLowerCase()
ExtName(filePath) ==
  IF filePath = "index.html" THEN ".html"
  ELSE IF filePath = "style.css" THEN ".css"
  ELSE ""

\* mimeTypes[ext] || 'application/octet-stream'
ContentType(ext) ==
  IF ext = ".html" THEN "text/html"
  ELSE IF ext = ".css" THEN "text/css"
  ELSE IF ext = ".js" THEN "application/javascript"
  ELSE IF ext = ".png" THEN "image/png"
  ELSE IF ext \in {".jpg", ".jpeg"} THEN "image/jpeg"
  ELSE IF ext = ".svg" THEN "image/svg+xml"
  ELSE "application/octet-stream"

\* the bytes of a file that was read
Content(filePath) == "<bytes of " \o filePath \o ">"

IndexContent == Content("index.html")

\* the callback of the first readFile, on success
FileCallback(filePath) ==
  [status |-> 200, ctype |-> ContentType(ExtName(filePath)), body |-> Content(filePath)]

\* the fallback answering 404 when index.html cannot be read
IndexCallbackNotFound(error) ==
  [status |-> IF error THEN 404 ELSE 200, ctype |-> "text/html",
   body |-> IF error THEN NoBody ELSE IndexContent]

\* the callback of the fallback readFile: error is ignored, indexContent is
\* undefined when the read failed and res.end(undefined) sends no body
IndexCallback(error) ==
  [status |-> 200, ctype |-> "text/html",
   body |-> IF error THEN NoBody ELSE IndexContent]

(* ------------------------------- state --------------------------------- *)

\* One request: where its handler is (pc), what it asked, the branch of the
\* handler it took (route), whether the CORS headers were set on res (cors),
\* what was answered (resp, the CORS headers sent with it, and ends: how
\* many times res.end was called), and the locals its
\* closures keep across awaits (locals, row, now, token; bearer and sent are
\* the token and the row of the append call in flight).  parse, lacks, hit,
\* tokenCalls, appendCalls, tokenResp, appendResp, readErr and indexErr
\* record what happened to the request, logged what console.error wrote.
\* exchanges records every exchange that getAccessToken completed without
\* throwing: the request, the time its call started, the time the endpoint
\* issued the token and the data it returned.
NewReq ==
  [pc |-> "new", method |-> "", path |-> "", route |-> "", cors |-> FALSE,
   resp |-> NoResp, headers |-> {}, ends |-> 0,
   parse |-> "none", lacks |-> FALSE, locals |-> NoLocals, row |-> <<>>,
   now |-> 0, hit |-> FALSE, token |-> NoToken,
   tokenCalls |-> 0, appendCalls |-> 0, bearer |-> NoToken, sent |-> <<>>,
   tokenResp |-> NoCall, appendResp |-> NoAppend, logged |-> "",
   readErr |-> FALSE, indexErr |-> FALSE]

Init ==
  /\ cachedToken = Null
  /\ tokenExpiry = Num(0)
  /\ clock = 0
  /\ req = [r \in Requests |-> NewReq]
  /\ exchanges = {}

\* res.end(...) with response p, sent with the headers set on res before;
\* the handler is over and its locals are gone
Answer(q, p) ==
  [q EXCEPT !.pc = "done", !.resp = p, !.ends = q.ends + 1,
            !.headers = IF q.cors THEN CorsHeaders ELSE {},
            !.locals = NoLocals, !.row = <<>>, !.now = 0,
            !.token = NoToken, !.bearer = NoToken, !.sent = <<>>]

(* ------------------------------ actions -------------------------------- *)

\* whether the parsed body lacks a required field (absent or empty); a body
\* that is no object has no fields at all
Lacks(body) ==
  /\ ~ParseThrows(body)
  /\ \E f \in RequiredFields :
       body.kind # "object" \/ body[f] \in {Absent, Empty}

\* appendToSheet after getAccessToken returned token: fetch(url, ...) with
\* the Authorization header and the row as body
CallAppend(q, token) ==
  [q EXCEPT !.pc = "append", !.token = token, !.bearer = token,
            !.sent = q.row, !.appendCalls = q.appendCalls + 1]

\* getAccessToken past the cache check: fetch(token endpoint)
CallToken(q) ==
  [q EXCEPT !.pc = "token", !.tokenCalls = q.tokenCalls + 1]

\* a retry of the exchange where the handler gives up
CaughtRetries(q) == CallToken(q)

\* the catch block logging the error and answering nothing
CaughtSilently(q) == [q EXCEPT !.pc = "done"]

\* the catch block answering with the message of the error
CaughtLeaks(q) ==
  Answer(q, [Resp500 EXCEPT !.body = "{error: " \o q.logged \o "}"])

\* catch (err): console.error(err) (q.logged is err), 500 and the generic
\* payload
Caught(q) == Answer(q, Resp500)

\* the handler without the preflight branch
RouteNoPreflight(m, p) ==
  IF m = "POST" /\ p = "/submit" THEN "submit" ELSE "static"

\* the submission branch taken for /submit whatever the method
RoutePathOnly(m, p) ==
  IF m = "OPTIONS" THEN "preflight"
  ELSE IF p = "/submit" THEN "submit"
  ELSE "static"

\* the submission branch taken for POST whatever the path
RouteMethodOnly(m, p) ==
  IF m = "OPTIONS" THEN "preflight"
  ELSE IF m = "POST" THEN "submit"
  ELSE "static"

\* if (req.method === 'OPTIONS') ... if (req.method === 'POST' &&
\* parsedUrl.pathname === '/submit') ... else ...
Route(m, p) ==
  IF m = "OPTIONS" THEN "preflight"
  ELSE IF m = "POST" /\ p = "/submit" THEN "submit"
  ELSE "static"

\* the CORS headers set on the preflight answer only
SetCorsPreflightOnly(q) == [q EXCEPT !.cors = (q.method = "OPTIONS")]

\* res.setHeader('Access-Control-Allow-...', ...), three times
SetCors(q) == [q EXCEPT !.cors = TRUE]

\* http.createServer's handler: CORS headers, preflight, routing.  Requests
\* are numbered in the order they arrive.
Request(r) ==
  /\ req[r].pc = "new"
  /\ \A o \in Requests : o < r => req[o].pc # "new"
  /\ \E m \in Methods, p \in Paths :
       LET k == Route(m, p)
           q == SetCors([req[r] EXCEPT !.method = m, !.path = p, !.route = k])
       IN
       req' = [req EXCEPT ![r] =
                 IF k = "preflight" THEN Answer(q, Resp204)
                 ELSE IF k = "submit" THEN [q EXCEPT !.pc = "body"]
                 ELSE [q EXCEPT !.pc = "read"]]
  /\ UNCHANGED <<cachedToken, tokenExpiry, clock, exchanges>>

\* req.on('end'): parse, validate, build the row, appendToSheet up to its
\* first fetch (the token endpoint on a cache miss, the Sheets API on a hit)
Submitted(q, body) ==
  IF ParseThrows(body)
  THEN Caught([q EXCEPT !.parse = "throws",
                        !.logged = "SyntaxError: Unexpected token"])
  ELSE LET p == [q EXCEPT !.parse = body.kind, !.lacks = Lacks(body)] IN
    IF DestructureThrows(body)
    THEN Caught([p EXCEPT !.logged = "TypeError: Cannot destructure"])
    ELSE IF MissingRequired(Locals(body)) THEN Answer(p, Resp400)
    ELSE LET v == [p EXCEPT !.locals = Locals(body),
                            !.row = BuildRow(Iso(clock), Locals(body)),
                            !.now = clock] IN
      IF CacheValid(clock)
      THEN CallAppend([v EXCEPT !.hit = TRUE], cachedToken)
      ELSE CallToken(v)

OnEnd(r) ==
  /\ req[r].pc = "body"
  /\ \E body \in Bodies : req' = [req EXCEPT ![r] = Submitted(req[r], body)]
  /\ UNCHANGED <<cachedToken, tokenExpiry, clock, exchanges>>

\* getAccessToken after the token endpoint answered: throw, or store the
\* pair and return; appendToSheet then calls the Sheets API
TokenResponse(r) ==
  /\ req[r].pc = "token"
  /\ \E resp \in TokenResponses(r) :
       LET q == [req[r] EXCEPT !.tokenResp = resp] IN
       IF ExchangeThrows(resp)
       THEN /\ \E err \in TokenErrors(resp) :
                 req' = [req EXCEPT ![r] = Caught([q EXCEPT !.logged = err])]
            /\ UNCHANGED <<cachedToken, tokenExpiry, exchanges>>
       ELSE /\ cachedToken' = Stored(q.now, resp.data)[1]
            /\ tokenExpiry' = Stored(q.now, resp.data)[2]
            /\ req' = [req EXCEPT ![r] = CallAppend(q, cachedToken')]
            /\ \E t \in IssueTimes(q.now, resp.data) :
                 exchanges' = exchanges \cup
                   {[req |-> r, start |-> q.now, issued |-> t,
                     data |-> resp.data]}
  /\ UNCHANGED clock

\* appendToSheet after the Sheets API answered, and the rest of the handler
AppendResponse(r) ==
  /\ req[r].pc = "append"
  /\ \E resp \in AppendResponses :
       LET q == [req[r] EXCEPT !.appendResp = resp] IN
       /\ IF AppendThrows(resp)
          THEN \E err \in AppendErrors(resp) :
                 req' = [req EXCEPT ![r] = Caught([q EXCEPT !.logged = err])]
          ELSE req' = [req EXCEPT ![r] = Answer(q, Resp200)]
       /\ cachedToken' = CacheAfterAppend(resp)[1]
       /\ tokenExpiry' = CacheAfterAppend(resp)[2]
  /\ UNCHANGED <<clock, exchanges>>

\* serveStaticFile: the callback of fs.readFile(filePath)
ReadFileDone(r) ==
  /\ req[r].pc = "read"
  /\ \E err \in BOOLEAN :
       req' = [req EXCEPT ![r] =
                 IF err THEN [req[r] EXCEPT !.pc = "readIndex", !.readErr = TRUE]
                 ELSE Answer(req[r], FileCallback(FilePath(req[r].path)))]
  /\ UNCHANGED <<cachedToken, tokenExpiry, clock, exchanges>>

\* serveStaticFile: the callback of fs.readFile(indexPath)
ReadIndexDone(r) ==
  /\ req[r].pc = "readIndex"
  /\ \E error \in BOOLEAN :
       req' = [req EXCEPT ![r] =
                 Answer([req[r] EXCEPT !.indexErr = error], IndexCallback(error))]
  /\ UNCHANGED <<cachedToken, tokenExpiry, clock, exchanges>>

\* time passes: Math.floor(Date.now() / 1000) grows
Tick ==
  /\ clock < MaxTime
  /\ clock' = clock + 1
  /\ UNCHANGED <<cachedToken, tokenExpiry, req, exchanges>>

Next ==
  \/ \E r \in Requests : Request(r)
  \/ \E r \in Requests : OnEnd(r)
  \/ \E r \in Requests : TokenResponse(r)
  \/ \E r \in Requests : AppendResponse(r)
  \/ \E r \in Requests : ReadFileDone(r)
  \/ \E r \in Requests : ReadIndexDone(r)
  \/ Tick

Spec == Init /\ [][Next]_vars

\* The server when every outbound call eventually returns or fails: the
\* promise of each fetch (and of response.json()) is settled, and the event
\* loop then runs the continuation awaiting it.
LiveSpec ==
  /\ Spec
  /\ \A r \in Requests :
       WF_vars(TokenResponse(r)) /\ WF_vars(AppendResponse(r))

(* ------------------------------ properties ----------------------------- *)

IsSubmit(r) == req[r].method = "POST" /\ req[r].path = "/submit"

IsStatic(r) == req[r].pc # "new" /\ req[r].method # "OPTIONS" /\ ~IsSubmit(r)

\* the token-exchange call of r was made and failed as a call: no response,
\* a non-2xx status, or a body that is no JSON
TokenCallFailed(r) ==
  \/ req[r].tokenResp.fetch = "rejects"
  \/ /\ req[r].tokenResp.fetch = "resolves"
     /\ req[r].tokenResp.json = "throws" \/ ~req[r].tokenResp.ok

\* the append call of r was made and failed
AppendCallFailed(r) ==
  \/ req[r].appendResp.fetch = "rejects"
  \/ /\ req[r].appendResp.fetch = "resolves"
     /\ req[r].appendResp.json = "throws" \/ ~req[r].appendResp.ok

AppendSucceeded(r) ==
  req[r].appendResp = [fetch |-> "resolves", ok |-> TRUE, json |-> "parses"]

\* C1: a POST /submit whose parsed body lacks name, surname or email (absent
\* or empty) is answered 400 with the validation payload, and no
\* token-exchange call and no append call is made for it.
C1_MissingFieldsRejected ==
  \A r \in Requests :
    req[r].lacks =>
      /\ req[r].resp = Resp400
      /\ req[r].tokenCalls = 0
      /\ req[r].appendCalls = 0

\* C2: a POST /submit is answered 200 only after its own append call has
\* succeeded, and a request in which parsing, validation, the token
\* exchange or the append threw is answered 500 with the generic payload,
\* never 200.
C2_SuccessOnlyAfterAppend ==
  \A r \in Requests :
    /\ (IsSubmit(r) /\ req[r].resp.status = 200) =>
         req[r].appendCalls = 1 /\ AppendSucceeded(r)
    /\ (req[r].parse \in {"throws", "null"}
          \/ TokenCallFailed(r) \/ AppendCallFailed(r)) =>
         req[r].pc = "done" /\ req[r].resp = Resp500

C2_Witness ==
  \E r, o \in Requests :
    /\ req[r].resp = Resp200 /\ AppendSucceeded(r)
    /\ AppendCallFailed(o) /\ req[o].resp = Resp500

\* C3: the row of every append call is [timestamp, name, surname, birthdate,
\* whatsapp, email], six elements in that order; the three required values
\* are those of the body, non-empty, and an absent (or null) birthdate or
\* whatsapp is the empty string, never null or undefined.
C3_RowShape ==
  \A r \in Requests :
    req[r].pc = "append" =>
      LET row == req[r].sent
          l == req[r].locals
      IN /\ Len(row) = 6
         /\ row[1] \in {Iso(t) : t \in 0..MaxTime}
         /\ row[2] = l["name"] /\ row[3] = l["surname"] /\ row[6] = l["email"]
         /\ \A i \in {2, 3, 6} : row[i] \notin {Absent, Null, Empty}
         /\ row[4] = (IF l["birthdate"] \in {Absent, Null} THEN Empty
                      ELSE l["birthdate"])
         /\ row[5] = (IF l["whatsapp"] \in {Absent, Null} THEN Empty
                      ELSE l["whatsapp"])
         /\ row[4] \notin {Absent, Null} /\ row[5] \notin {Absent, Null}

C3_Witness ==
  \E r \in Requests :
    /\ req[r].pc = "append"
    /\ req[r].locals["birthdate"] = Absent
    /\ req[r].sent =
         <<Iso(req[r].now), "Ana", "Silva", "", "5511999990000", "a@x.com">>

\* C4: a getAccessToken call that finds a cached token with
\* tokenExpiry - 5 > now makes no token-exchange call and returns that token:
\* the token of an exchange of another submission whose start time plus
\* lifetime minus 5 is later than now, so that the two submissions make
\* exactly one exchange call in total.
C4_TokenReuse ==
  \A r \in Requests :
    req[r].hit =>
      /\ req[r].tokenCalls = 0
      /\ req[r].pc = "append" =>
           \E e \in exchanges :
             /\ e.req # r
             /\ e.data.access_token \notin {Absent, Null, Empty}
             /\ req[r].bearer = e.data.access_token
             /\ e.data.expires_in # NaN
             /\ e.start + e.data.expires_in[1] - SafetyMargin > req[r].now
             /\ req[e.req].tokenCalls + req[r].tokenCalls = 1

C4_Witness ==
  \E r \in Requests :
    req[r].hit /\ req[r].pc = "append" /\ req[r].bearer # TokenOf(r)

\* C5: a submission whose getAccessToken call starts when no token is cached
\* or when tokenExpiry - 5 <= now makes exactly one token-exchange call, and
\* when that exchange returns an access token and a lifetime the cache holds
\* that token with expiry = the call's start time + the lifetime.
C5_TokenRefresh ==
  [][\A r \in Requests :
       /\ ( /\ req[r].pc = "body"
            /\ req'[r].row # <<>>
            /\ \/ cachedToken \in {Null, Absent}
               \/ tokenExpiry # NaN /\ tokenExpiry[1] - SafetyMargin <= clock )
          => req'[r].pc = "token" /\ req'[r].tokenCalls = 1
       /\ ( /\ req[r].pc = "token"
            /\ req'[r].tokenResp.fetch = "resolves"
            /\ req'[r].tokenResp.ok
            /\ req'[r].tokenResp.json = "parses"
            /\ req'[r].tokenResp.data.access_token # Absent
            /\ req'[r].tokenResp.data.expires_in # NaN )
          => /\ cachedToken' = req'[r].tokenResp.data.access_token
             /\ tokenExpiry' =
                  Num(req[r].now + req'[r].tokenResp.data.expires_in[1])
             /\ req'[r].tokenCalls = 1
    ]_vars

C5_Witness ==
  \E r \in Requests :
    /\ req[r].pc = "append" /\ ~req[r].hit /\ req[r].tokenCalls = 1
    /\ req[r].now < clock
    /\ cachedToken = TokenOf(r)
    /\ tokenExpiry = Num(req[r].now + Lifetime)

\* C6: when the token endpoint answers with a non-2xx status, the submission
\* that made the exchange is answered 500 and cachedToken and tokenExpiry
\* keep the values they had.
C6_NonOkKeepsCache ==
  [][\A r \in Requests :
       ( /\ req[r].pc = "token"
         /\ req'[r].tokenResp.fetch = "resolves"
         /\ ~req'[r].tokenResp.ok )
       => /\ req'[r].pc = "done" /\ req'[r].resp = Resp500
          /\ cachedToken' = cachedToken /\ tokenExpiry' = tokenExpiry
    ]_vars

C6_Witness ==
  \E r \in Requests :
    /\ req[r].pc = "done" /\ req[r].resp = Resp500
    /\ req[r].tokenResp.fetch = "resolves" /\ ~req[r].tokenResp.ok
    /\ cachedToken \notin {Null, Absent} /\ tokenExpiry # NaN

\* C7: getAccessToken fails in every case where the exchange fails: transport
\* error, non-success status, or a malformed response, a success-status
\* response without a usable access token or lifetime included; it then
\* returns nothing (the request is answered 500 and makes no append call)
\* and stores nothing.
C7_FailedExchangeThrows ==
  \A r \in Requests :
    ( \/ TokenCallFailed(r)
      \/ /\ req[r].tokenResp.fetch = "resolves"
         /\ \/ req[r].tokenResp.data.access_token = Absent
            \/ req[r].tokenResp.data.expires_in = NaN )
    => /\ req[r].resp = Resp500
       /\ req[r].appendCalls = 0
       /\ \A e \in exchanges : e.req # r
       /\ cachedToken # Absent /\ tokenExpiry # NaN

\* C8: the pair (cachedToken, tokenExpiry) is the initial pair (null, 0) or
\* the access token of one completed exchange with the expiry computed from
\* the start time and the lifetime of that same exchange.
C8_PairIntegrity ==
  \/ cachedToken = Null /\ tokenExpiry = Num(0)
  \/ \E e \in exchanges :
       /\ cachedToken = e.data.access_token
       /\ tokenExpiry = (IF e.data.expires_in = NaN THEN NaN
                         ELSE Num(e.start + e.data.expires_in[1]))

C8_Witness ==
  \E e, f \in exchanges :
    /\ e.req # f.req /\ e.start < f.start
    /\ e.data.access_token # Absent /\ e.data.expires_in # NaN
    /\ f.data.access_token # Absent /\ f.data.expires_in # NaN
    /\ cachedToken = e.data.access_token
    /\ tokenExpiry = Num(e.start + Lifetime)

\* C9: a submission makes at most one token-exchange call and at most one
\* append call; when its token-exchange call fails it makes no append call,
\* and after a failed call it makes no further call and is answered 500.
C9_NoRetry ==
  \A r \in Requests :
    /\ req[r].tokenCalls <= 1
    /\ req[r].appendCalls <= 1
    /\ TokenCallFailed(r) =>
         req[r].appendCalls = 0 /\ req[r].pc = "done" /\ req[r].resp = Resp500
    /\ AppendCallFailed(r) =>
         req[r].pc = "done" /\ req[r].resp = Resp500

C9_Witness ==
  \E r, o \in Requests :
    /\ TokenCallFailed(r) /\ req[r].tokenCalls = 1 /\ req[r].appendCalls = 0
    /\ AppendCallFailed(o) /\ req[o].tokenCalls = 1 /\ req[o].appendCalls = 1

\* C10 as stated: a request whose file cannot be read is answered 200 with
\* the content of the main page.
C10_FallbackServesMainPage ==
  \A r \in Requests :
    (req[r].readErr /\ req[r].pc = "done") =>
      req[r].resp.status = 200 /\ req[r].resp.body = IndexContent

\* C10: a static request is always answered 200; when its file cannot be
\* read the answer is text/html with the content of the main page if the
\* main page can be read, and with no body if it cannot.
C10_FallbackAnswers200 ==
  \A r \in Requests :
    (IsStatic(r) /\ req[r].pc = "done") =>
      /\ req[r].resp.status = 200
      /\ req[r].readErr =>
           /\ req[r].resp.ctype = "text/html"
           /\ req[r].resp.body =
                (IF req[r].indexErr THEN NoBody ELSE IndexContent)

C10_Witness ==
  \E r \in Requests :
    /\ req[r].pc = "done" /\ req[r].method = "GET" /\ req[r].path = "/submit"
    /\ req[r].readErr /\ ~req[r].indexErr
    /\ req[r].resp = [status |-> 200, ctype |-> "text/html", body |-> IndexContent]

\* C11: an OPTIONS request to any path, /submit included, is answered 204
\* with the CORS headers and no body, at once: its body is not parsed, no
\* file is read, no token exchange and no append call is made.
C11_Preflight ==
  \A r \in Requests :
    (req[r].pc # "new" /\ req[r].method = "OPTIONS") =>
      /\ req[r].pc = "done" /\ req[r].ends = 1
      /\ req[r].resp = [status |-> 204, ctype |-> "", body |-> NoBody]
      /\ req[r].headers = CorsHeaders
      /\ req[r].parse = "none"
      /\ ~req[r].readErr /\ ~req[r].indexErr
      /\ req[r].tokenCalls = 0 /\ req[r].appendCalls = 0

C11_Witness ==
  \E r \in Requests :
    /\ req[r].method = "OPTIONS" /\ req[r].path = "/submit"
    /\ req[r].resp.status = 204 /\ req[r].headers = CorsHeaders

\* C12: every response sent, whatever its status (204, 200 static, 200
\* success, 400, 500), carries the three CORS headers set at the start of
\* the handler.
C12_CorsOnEveryResponse ==
  \A r \in Requests :
    (req[r].ends > 0 \/ req[r].resp.status # 0) =>
      /\ req[r].resp.status \in {200, 204, 400, 500}
      /\ req[r].headers =
           {"Access-Control-Allow-Origin: *",
            "Access-Control-Allow-Methods: GET, POST, OPTIONS",
            "Access-Control-Allow-Headers: Content-Type"}

C12_Witness ==
  \E r, o \in Requests :
    /\ req[r].resp.status = 500 /\ req[r].headers = CorsHeaders
    /\ req[o].resp.status = 200 /\ req[o].route = "static"
    /\ req[o].headers = CorsHeaders

\* C13: a body is parsed, and a token-exchange or append call made, only for
\* a request with method POST and path /submit; every other request that is
\* not OPTIONS (any other path, or /submit with another method) goes to the
\* static file responder and makes no such call.
C13_OnlyPostSubmit ==
  \A r \in Requests :
    /\ ( \/ req[r].route = "submit"
         \/ req[r].pc \in {"body", "token", "append"}
         \/ req[r].parse # "none"
         \/ req[r].tokenCalls > 0 \/ req[r].appendCalls > 0 )
       => (req[r].method = "POST" /\ req[r].path = "/submit")
    /\ ( /\ req[r].pc # "new"
         /\ req[r].method # "OPTIONS"
         /\ ~(req[r].method = "POST" /\ req[r].path = "/submit") )
       => /\ req[r].route = "static"
          /\ req[r].pc \in {"read", "readIndex", "done"}
          /\ req[r].pc = "done" =>
               /\ req[r].resp.status = 200
               /\ req[r].resp.ctype \in {"text/html", "application/octet-stream"}

C13_Witness ==
  \E r, o \in Requests :
    /\ req[r].method = "GET" /\ req[r].path = "/submit"
    /\ req[r].pc = "done" /\ req[r].route = "static"
    /\ req[o].method = "POST" /\ req[o].path = "/"
    /\ req[o].pc = "done" /\ req[o].route = "static"

\* C14: a failed submission is answered with status 500 and one constant
\* payload whatever the cause (unparsable body, token exchange, append) and
\* whatever detail the external service returned: any two failed requests
\* have the same response, though what was logged for them differs.
C14_UniformFailure ==
  \A r, o \in Requests :
    /\ req[r].logged # "" =>
         /\ req[r].pc = "done"
         /\ req[r].resp =
              [status |-> 500, ctype |-> "application/json",
               body |-> "{error: Erro ao processar a solicitacao.}"]
    /\ (req[r].resp.status = 500 /\ req[o].resp.status = 500) =>
         req[r].resp = req[o].resp /\ req[r].headers = req[o].headers

C14_Witness ==
  \E r, o \in Requests :
    /\ req[r].logged = "Token request failed: invalid_grant"
    /\ req[o].logged = "Sheets append failed: PERMISSION_DENIED"
    /\ req[r].resp = Resp500 /\ req[o].resp = Resp500

\* the stages a submission has passed, read from what is recorded of it
Parsed(r) == req[r].parse \notin {"none", "throws"}

Validated(r) == Parsed(r) /\ req[r].parse = "object" /\ ~req[r].lacks

Appending(r) == req[r].tokenCalls > 0 \/ req[r].appendCalls > 0 \/ req[r].hit

C15_Stages ==
  \A r \in Requests :
    (req[r].pc # "new" /\ IsSubmit(r)) =>
      /\ req[r].ends <= 1
      /\ (req[r].pc = "done") <=> (req[r].ends = 1)
      /\ (req[r].pc = "done") <=> (req[r].resp.status \in {200, 400, 500})
      /\ req[r].pc # "done" => req[r].resp = NoResp
      /\ req[r].pc = "body" => req[r].parse = "none" /\ ~Appending(r)
      /\ req[r].pc \in {"token", "append"} => Validated(r)
      /\ Appending(r) => Validated(r)
      /\ req[r].resp.status = 400 => Parsed(r) /\ req[r].lacks /\ ~Appending(r)
      /\ req[r].resp.status = 200 => Validated(r) /\ AppendSucceeded(r)
      /\ (req[r].pc = "done" /\ ~Parsed(r)) => req[r].resp.status = 500
      /\ (req[r].pc = "done" /\ Validated(r) /\ ~AppendSucceeded(r)) =>
           req[r].resp.status = 500

C15_StageOrder ==
  \A r \in Requests :
    (IsSubmit(r) /\ req'[r] # req[r]) =>
      /\ \/ req[r].pc = "body" /\ req'[r].pc \in {"token", "append", "done"}
         \/ req[r].pc = "token" /\ req'[r].pc \in {"append", "done"}
         \/ req[r].pc = "append" /\ req'[r].pc = "done"
      /\ req'[r].ends = req[r].ends + (IF req'[r].pc = "done" THEN 1 ELSE 0)

\* C15: every POST /submit whose body was received and whose outbound calls
\* return or fail passes parsing, validating, appending and responding in
\* that order, skipping later stages only on failure, and eventually has
\* exactly one terminal response, 200, 400 or 500: it is never answered
\* twice and never left without an answer.
C15_SubmissionTerminates ==
  /\ []C15_Stages
  /\ [][C15_StageOrder]_vars
  /\ \A r \in Requests :
       (req[r].pc \in {"token", "append"}) ~>
         (req[r].pc = "done" /\ req[r].ends = 1
            /\ req[r].resp.status \in {200, 500})

C15_Witness ==
  \E r, o \in Requests :
    /\ IsSubmit(r) /\ req[r].pc = "done" /\ req[r].resp = Resp200
    /\ req[r].tokenCalls = 1 /\ req[r].appendCalls = 1 /\ req[r].ends = 1
    /\ IsSubmit(o) /\ req[o].pc = "done" /\ req[o].resp = Resp500
    /\ TokenCallFailed(o) /\ req[o].ends = 1

\* a request that is not a submission made no outbound call
C16_NoOutboundCall ==
  \A r \in Requests :
    (req[r].pc # "new" /\ ~IsSubmit(r)) =>
      /\ req[r].tokenCalls = 0 /\ req[r].appendCalls = 0
      /\ req[r].tokenResp = NoCall /\ req[r].appendResp = NoAppend
      /\ req[r].bearer = NoToken /\ ~req[r].hit
      /\ \A e \in exchanges : e.req # r

\* a step of a request that is not a submission leaves the cache as it is
C16_CacheFrame ==
  \A r \in Requests :
    (req'[r] # req[r]
       /\ ~(req'[r].method = "POST" /\ req'[r].path = "/submit")) =>
      /\ cachedToken' = cachedToken
      /\ tokenExpiry' = tokenExpiry
      /\ exchanges' = exchanges

\* C16: static asset requests and OPTIONS requests leave cachedToken and
\* tokenExpiry unchanged and make no call to the token endpoint or the
\* Sheets API, whatever submissions run concurrently.
C16_StaticBypassesToken ==
  /\ []C16_NoOutboundCall
  /\ [][C16_CacheFrame]_vars

C16_Witness ==
  \E r, o \in Requests :
    /\ o < r
    /\ IsSubmit(o) /\ req[o].pc = "append" /\ ~req[o].hit
    /\ cachedToken = TokenOf(o) /\ tokenExpiry = Num(Lifetime)
    /\ IsStatic(r) /\ req[r].pc = "done" /\ req[r].resp.status = 200

\* both submissions are waiting for their own token exchange
BothExchanging(r, o) ==
  /\ r # o
  /\ req[r].pc = "token" /\ req[r].tokenCalls = 1
  /\ req[o].pc = "token" /\ req[o].tokenCalls = 1

\* duplicate refresh is not prevented: this state is reachable
DuplicateRefresh == \E r, o \in Requests : BothExchanging(r, o)

\* the append in flight after a refresh carries the token of the request's
\* own exchange
C17_OwnToken ==
  \A r \in Requests :
    (req[r].pc = "append" /\ ~req[r].hit) =>
      /\ req[r].tokenCalls = 1
      /\ \E e \in exchanges :
           e.req = r /\ req[r].bearer = e.data.access_token
      /\ \A e \in exchanges :
           e.req = r => req[r].bearer = e.data.access_token

\* the cache changes only when an exchange completes, and then holds the
\* pair of that exchange
C17_LastWins ==
  IF exchanges' = exchanges
  THEN cachedToken' = cachedToken /\ tokenExpiry' = tokenExpiry
  ELSE \E e \in exchanges' \ exchanges :
         /\ exchanges' = exchanges \cup {e}
         /\ cachedToken' = e.data.access_token
         /\ tokenExpiry' = JsAdd(Num(e.start), e.data.expires_in)

\* C17: two submissions arriving while the cache is empty or stale can both
\* issue their own token exchange; whenever they do, both are answered, each
\* append carries the token its own exchange returned, and the cache holds
\* the pair of the exchange that completed last.
C17_DuplicateRefresh ==
  /\ []C17_OwnToken
  /\ [][C17_LastWins]_vars
  /\ \A r, o \in Requests :
       BothExchanging(r, o) ~> (req[r].pc = "done" /\ req[o].pc = "done")

\* both exchanged concurrently (the later-started one completed first, the
\* earlier-started one last), both appends are in flight with their own
\* tokens, and the cache holds the pair of the exchange that completed last
C17_Witness ==
  \E r, o \in Requests, e, f \in exchanges :
    /\ e.req = r /\ f.req = o /\ e.start < f.start
    /\ req[r].pc = "append" /\ req[r].bearer = TokenOf(r)
    /\ req[o].pc = "append" /\ req[o].bearer = TokenOf(o)
    /\ cachedToken = TokenOf(r) /\ tokenExpiry = Num(e.start + Lifetime)

\* the exchange that issued token tok
IssuedBy(tok) == {e \in exchanges : e.data.access_token = tok}

\* C18: the cached tokenExpiry never exceeds the expiry of the cached token
\* at the provider, and a token handed out from the cache has more than 5
\* seconds of lifetime left at the provider when it is handed out, in every
\* interleaving of the refreshes.
C18_ExpiryNeverLate ==
  /\ Truthy(cachedToken) =>
       /\ IssuedBy(cachedToken) # {}
       /\ \A e \in IssuedBy(cachedToken) :
            /\ Len(tokenExpiry) = 1
            /\ tokenExpiry[1] <= RealExpiry(e)
  /\ \A r \in Requests :
       (req[r].pc = "append" /\ req[r].hit) =>
         /\ IssuedBy(req[r].bearer) # {}
         /\ \A e \in IssuedBy(req[r].bearer) :
              RealExpiry(e) - req[r].now > SafetyMargin

\* an earlier-started refresh completed after a later-started one and
\* overwrote its pair; the token it cached was issued after its call started
C18_Witness ==
  \E e, f \in exchanges :
    /\ e.start < f.start /\ e.start < e.issued
    /\ Truthy(f.data.access_token)
    /\ cachedToken = e.data.access_token /\ Truthy(cachedToken)
    /\ tokenExpiry = Num(e.start + Lifetime)
    /\ RealExpiry(e) = e.issued + Lifetime

\* a token handed out from the cache for an append in flight
HandedOut ==
  \E r \in Requests :
    req[r].pc = "append" /\ req[r].hit /\ IssuedBy(req[r].bearer) # {}

\* the cache holds a token and clock is inside its validity window
InWindow ==
  /\ cachedToken \notin {Null, Absent, Empty}
  /\ Len(tokenExpiry) = 1
  /\ tokenExpiry[1] - 5 > clock

\* a step in which the append of r fails leaves the cache as it is
C19_FailedAppendFrame ==
  \A r \in Requests :
    (req[r].pc = "append" /\ req'[r].pc = "done"
       /\ req'[r].resp.status = 500) =>
      /\ cachedToken' = cachedToken
      /\ tokenExpiry' = tokenExpiry

\* after a failed append, a valid submission handled inside the window
\* takes the cached token and makes no exchange
C19_ReuseAfterFailure ==
  \A r, o \in Requests :
    (req[r].pc = "body" /\ req'[r].pc \in {"token", "append"}
       /\ AppendCallFailed(o) /\ InWindow) =>
      /\ req'[r].pc = "append" /\ req'[r].hit
      /\ req'[r].bearer = cachedToken
      /\ req'[r].tokenCalls = 0 /\ req'[r].appendCalls = 1
      /\ cachedToken' = cachedToken /\ tokenExpiry' = tokenExpiry

\* C19: a failed sheet append (the call rejected, or a non-2xx answer such
\* as a rejection of the bearer token) leaves cachedToken and tokenExpiry
\* unchanged, and the next submission inside the validity window is given
\* the same cached token without a new exchange.
C19_FailedAppendKeepsCache ==
  /\ [][C19_FailedAppendFrame]_vars
  /\ [][C19_ReuseAfterFailure]_vars

\* the Sheets API rejected the bearer token of o; the token is still cached
\* and inside its window, and the next submission has arrived
C19_Witness ==
  \E r, o \in Requests, e \in exchanges :
    /\ e.req = o /\ cachedToken = e.data.access_token
    /\ req[o].pc = "done" /\ req[o].resp = Resp500
    /\ req[o].appendResp = [fetch |-> "resolves", ok |-> FALSE, json |-> "parses"]
    /\ req[o].logged = "Sheets append failed: UNAUTHENTICATED"
    /\ InWindow
    /\ IsSubmit(r) /\ req[r].pc = "body"

\* the submission after the failed append was given the cached token
ReusedAfterFailure ==
  \E r, o \in Requests :
    /\ AppendCallFailed(o) /\ req[o].tokenCalls = 1
    /\ req[r].pc = "append" /\ req[r].hit /\ req[r].bearer = TokenOf(o)

====
